---------------------------- MODULE Spec2Model ----------------------------
(***************************************************************************)
(* Model of src/demo.py: the four-wheel PID velocity demo for the Motor    *)
(* 2040.  One control-loop iteration ("tick") captures the four encoders,  *)
(* runs the four PID/velocity updates, steps the motion sequence, writes   *)
(* the setpoints and sleeps.  The loop is left when the user button reads  *)
(* true at the loop head, and the motors are then disabled.                *)
(*                                                                         *)
(* Units.  Velocities (setpoints, captures, errors) are integers in tenths *)
(* of a revolution per second, so 0.9 is 9.  PID corrections are in tenths *)
(* per second.  Motor speeds and speed commands are in hundredths, so the  *)
(* actuator range [-1.0, 1.0] is -100..100.  With these units every        *)
(* product and quotient of the program is an exact integer.                *)
(***************************************************************************)
EXTENDS Integers, FiniteSets, Sequences, TLC

(***************************************************************************)
(* Bounds of the model (not program constants).                            *)
(***************************************************************************)
\* Ticks explored with freely varying encoder readings (specification Spec).
MaxTicks == 3
\* Full passes through the motion sequence explored by SpecSeq.
SeqCycles == 1
\* Magnitude of the raw encoder velocities offered by the environment (tenths).
RawMag == 9
\* Time the work of one tick takes before the sleep (ms).
WorkTime == 1

(***************************************************************************)
(* Program constants.                                                      *)
(***************************************************************************)
UPDATES == 100
TIME_FOR_EACH_MOVE == 2
UPDATES_PER_MOVE == TIME_FOR_EACH_MOVE * UPDATES
\* UPDATE_RATE = 1 / UPDATES seconds, in milliseconds
UPDATE_RATE_MS == 1000 \div UPDATES
PRINT_DIVIDER == 4
\* VEL_KP = 30.0
VEL_KP == 30
\* Variant: the integral gain is given the proportional gain's value.
VEL_KI_AsKp == VEL_KP

\* VEL_KI = 0.0
VEL_KI == 0
\* VEL_KD = 0.4, in tenths
VEL_KD_T == 4
NUM_MOTORS == 4
\* Number of entries of the motion sequence (the wrap test "sequence >= 7").
NUM_MOVES == 7
\* Wheel friendly names
FL == 2
FR == 3
RL == 1
RR == 0
\* The speed literal 0.9 of the sequence dispatch, in tenths.
SPEED == 9
\* Limit of the motor's speed range, 1.0, in hundredths.
SPEED_LIMIT == 100

Wheels == 0 .. (NUM_MOTORS - 1)

NORMAL_DIR == "normal"
REVERSED_DIR == "reversed"

\* motors[..].direction(REVERSED_DIR) calls of the set-up
ReversedMotors == {FL, RL}
\* encoders[..].direction(REVERSED_DIR) calls of the set-up
ReversedEncoders == {FL, RL, RR}

VARIABLES
    pc,           \* position of the program: poll, capture, calc, seq, sleep,
                  \* disable, done, crashed
    idx,          \* loop variable i (m in the disable loop)
    pressed,      \* the user button, as the hardware has it now
    enabled,      \* per motor: power delivery enabled
    motorDir,     \* per motor: direction
    encDir,       \* per encoder: direction
    mspeed,       \* per motor: the speed the motor holds (what speed() returns)
    cmd,          \* per motor: the last value passed to speed(value)
    setpoint,     \* per PID: setpoint
    error_sum,    \* per PID: integral accumulator
    last_error,   \* per PID: previous error
    captures,     \* the list captures
    ncap,         \* per encoder: capture() calls in the iteration in progress
    update,       \* the progress counter
    print_count,
    sequence,     \* the sequence index
    ticks,        \* number of completed loop iterations
    accel,        \* per wheel: the last PID correction computed
    fed,          \* per wheel: the capture last passed to calculate
    usedSp,       \* per wheel: the setpoint the last calculate call read
    polls,        \* number of reads of the user button that returned
    worked,       \* time the work of the last completed tick took (ms)
    slept,        \* time the last end-of-tick sleep blocked (ms)
    rawSet,       \* raw velocities an encoder may report
    horizon       \* number of ticks explored

vars == <<pc, idx, pressed, enabled, motorDir, encDir, mspeed, cmd, setpoint,
          error_sum, last_error, captures, ncap, update, print_count, sequence,
          ticks, accel, fed, usedSp, polls, worked, slept, rawSet, horizon>>

\* The iteration in progress (1 for the first).
CurTick == ticks + 1

\* captures = [None] * NUM_MOTORS
NoCapture == [rps |-> 0, enc |-> -1, tick |-> 0]

(***************************************************************************)
(* Devices.                                                                *)
(***************************************************************************)
\* A reversed encoder or motor negates the value, a normal one keeps it.
Polarity(dir, v) == IF dir = REVERSED_DIR THEN -v ELSE v

\* Encoder.capture(): the velocity of encoder i when the shaft turns at raw.
Capture(i, raw) == [rps |-> Polarity(encDir[i], raw), enc |-> i, tick |-> CurTick]

\* Motor.speed(value): the speed the motor holds afterwards.
MotorStore(v) ==
    IF v > SPEED_LIMIT THEN SPEED_LIMIT
    ELSE IF v < -SPEED_LIMIT THEN -SPEED_LIMIT ELSE v

\* PID.calculate(value) of controller i: the correction, in tenths per second.
PidError(i, value) == setpoint[i] - value
PidIntegral(i, value) == error_sum[i] + PidError(i, value)
PidDerivative(i, value) == (PidError(i, value) - last_error[i]) * UPDATES
calculate(i, value) ==
    VEL_KP * PidError(i, value)
    + (VEL_KI * PidIntegral(i, value)) \div UPDATES
    + (VEL_KD_T * PidDerivative(i, value)) \div 10

(***************************************************************************)
(* Helper functions for driving in common directions.                      *)
(***************************************************************************)
drive_forward(speed) ==
    [i \in Wheels |-> speed]

turn_right(speed) ==
    [i \in Wheels |-> IF i \in {FL, RL} THEN speed ELSE -speed]

strafe_right(speed) ==
    [i \in Wheels |-> IF i \in {FL, RR} THEN speed ELSE -speed]

stop ==
    [i \in Wheels |-> 0]

\* Variant: sequence 3 turns left at full speed instead of turn_right(-0.0).
SetMotorSpeedsTurnLeft(s) ==
    CASE s = 0 -> drive_forward(SPEED)
      [] s = 1 -> drive_forward(-SPEED)
      [] s = 2 -> turn_right(SPEED)
      [] s = 3 -> turn_right(-SPEED)
      [] s = 4 -> strafe_right(SPEED)
      [] s = 5 -> strafe_right(-SPEED)
      [] s = 6 -> stop
      [] OTHER -> setpoint

\* The dispatch on sequence at the end of the loop body.
SetMotorSpeeds(s) ==
    CASE s = 0 -> drive_forward(SPEED)
      [] s = 1 -> drive_forward(-SPEED)
      [] s = 2 -> turn_right(SPEED)
      [] s = 3 -> turn_right(-0)
      [] s = 4 -> strafe_right(SPEED)
      [] s = 5 -> strafe_right(-SPEED)
      [] s = 6 -> stop
      [] OTHER -> setpoint

(***************************************************************************)
(* The sequencer arithmetic.                                               *)
(***************************************************************************)
\* Variant: the end-of-movement test with > for >=.
MoveDoneLate(u) == u > UPDATES_PER_MOVE

\* "if update >= UPDATES_PER_MOVE"
MoveDone(u) == u >= UPDATES_PER_MOVE

\* Variant: the wrap test with > for >=.
NextSequenceLate(s) == IF s + 1 > 7 THEN 0 ELSE s + 1

\* "sequence += 1; if sequence >= 7: sequence = 0"
NextSequence(s) == IF s + 1 >= 7 THEN 0 ELSE s + 1

\* Variant: the correction is taken as the new speed itself.
NewCommandDirect(prev, a) == (a * 10) \div UPDATES

\* The command of the wheel: the speed read back plus the correction applied
\* over one update period (tenths per second / UPDATES, in hundredths).
NewCommand(prev, a) == prev + (a * 10) \div UPDATES

\* Variant: the sequencer runs between the captures and the PID updates.
NextPhaseSeqFirst(p) ==
    CASE p = "capture" -> "seq"
      [] p = "seq" -> "calc"
      [] p = "calc" -> "sleep"
      [] p = "sleep" -> "poll"

\* Order of the phases of one loop iteration.
NextPhase(p) ==
    CASE p = "capture" -> "calc"
      [] p = "calc" -> "seq"
      [] p = "seq" -> "sleep"
      [] p = "sleep" -> "poll"

(***************************************************************************)
(* Initial state: the module-level set-up, up to the loop head.            *)
(***************************************************************************)
\* Variant: the enable loop is missing.
EnableNone == [i \in Wheels |-> FALSE]

\* "for m in motors: m.enable()"
EnableAll == [i \in Wheels |-> TRUE]

\* The motors are created with speed 0 and enabled; the PIDs are created with
\* gains and sample period only, so their setpoint, integral and previous
\* error are 0 and no setpoint is written before the loop.
InitProgram ==
    /\ pc = "poll"
    /\ idx = 0
    /\ pressed = FALSE
    /\ enabled = EnableAll
    /\ motorDir = [i \in Wheels |-> IF i \in ReversedMotors THEN REVERSED_DIR ELSE NORMAL_DIR]
    /\ encDir = [i \in Wheels |-> IF i \in ReversedEncoders THEN REVERSED_DIR ELSE NORMAL_DIR]
    /\ mspeed = [i \in Wheels |-> 0]
    /\ cmd = [i \in Wheels |-> 0]
    /\ setpoint = [i \in Wheels |-> 0]
    /\ error_sum = [i \in Wheels |-> 0]
    /\ last_error = [i \in Wheels |-> 0]
    /\ captures = [i \in Wheels |-> NoCapture]
    /\ ncap = [i \in Wheels |-> 0]
    /\ update = 0
    /\ print_count = 0
    /\ sequence = 0
    /\ ticks = 0
    /\ accel = [i \in Wheels |-> 0]
    /\ fed = [i \in Wheels |-> NoCapture]
    /\ usedSp = [i \in Wheels |-> 0]
    /\ polls = 0
    /\ worked = 0
    /\ slept = 0

\* Every encoder may report either direction of rotation on every tick.
Init ==
    /\ InitProgram
    /\ rawSet = {-RawMag, RawMag}
    /\ horizon = MaxTicks

\* One steady reading, followed over whole passes of the sequence.
InitSeq ==
    /\ InitProgram
    /\ rawSet = {RawMag}
    /\ horizon = SeqCycles * NUM_MOVES * UPDATES_PER_MOVE + MaxTicks

(***************************************************************************)
(* The user button (environment).                                          *)
(***************************************************************************)
Press ==
    /\ ~pressed
    /\ pressed' = TRUE
    /\ UNCHANGED <<pc, idx, enabled, motorDir, encDir, mspeed, cmd, setpoint,
                   error_sum, last_error, captures, ncap, update, print_count,
                   sequence, ticks, accel, fed, usedSp, polls, worked, slept,
                   rawSet, horizon>>

Release ==
    /\ pressed
    /\ pressed' = FALSE
    /\ UNCHANGED <<pc, idx, enabled, motorDir, encDir, mspeed, cmd, setpoint,
                   error_sum, last_error, captures, ncap, update, print_count,
                   sequence, ticks, accel, fed, usedSp, polls, worked, slept,
                   rawSet, horizon>>

(***************************************************************************)
(* The loop.                                                               *)
(***************************************************************************)
\* "while user_sw.raw() is not True": the button reads false, the body starts.
PollContinue ==
    /\ pc = "poll"
    /\ ~pressed
    /\ ticks < horizon
    /\ pc' = "capture"
    /\ idx' = 0
    /\ polls' = polls + 1
    /\ ncap' = [i \in Wheels |-> 0]
    /\ UNCHANGED <<pressed, enabled, motorDir, encDir, mspeed, cmd, setpoint,
                   error_sum, last_error, captures, update, print_count,
                   sequence, ticks, accel, fed, usedSp, worked, slept,
                   rawSet, horizon>>

\* Variant: the button is also tested inside the wheel loop.
PollHaltMidTick ==
    /\ pc \in {"poll", "calc"}
    /\ pressed
    /\ pc' = "disable"
    /\ idx' = 0
    /\ polls' = polls + 1
    /\ UNCHANGED <<pressed, enabled, motorDir, encDir, mspeed, cmd, setpoint,
                   error_sum, last_error, captures, ncap, update, print_count,
                   sequence, ticks, accel, fed, usedSp, worked, slept,
                   rawSet, horizon>>

\* Variant: the loop is left without running the disable loop.
PollHaltNoDisable ==
    /\ pc = "poll"
    /\ pressed
    /\ pc' = "done"
    /\ idx' = 0
    /\ polls' = polls + 1
    /\ UNCHANGED <<pressed, enabled, motorDir, encDir, mspeed, cmd, setpoint,
                   error_sum, last_error, captures, ncap, update, print_count,
                   sequence, ticks, accel, fed, usedSp, worked, slept,
                   rawSet, horizon>>

\* The button reads true: the loop is left for the disable loop.
PollHalt ==
    /\ pc = "poll"
    /\ pressed
    /\ pc' = "disable"
    /\ idx' = 0
    /\ polls' = polls + 1
    /\ UNCHANGED <<pressed, enabled, motorDir, encDir, mspeed, cmd, setpoint,
                   error_sum, last_error, captures, ncap, update, print_count,
                   sequence, ticks, accel, fed, usedSp, worked, slept,
                   rawSet, horizon>>

\* An unhandled exception ends the script where it is raised.
Raise ==
    /\ pc' = "crashed"
    /\ UNCHANGED <<idx, pressed, enabled, motorDir, encDir, mspeed, cmd,
                   setpoint, captures, ncap, update, print_count, sequence, ticks,
                   polls, worked, slept,
                   rawSet, horizon>>

\* user_sw.raw() raises.
PollFault ==
    /\ pc = "poll"
    /\ ticks < horizon
    /\ Raise
    /\ UNCHANGED <<error_sum, last_error, accel, fed, usedSp>>

\* "captures[i] = encoders[i].capture()"
CaptureStep ==
    /\ pc = "capture"
    /\ \E raw \in rawSet : captures' = [captures EXCEPT ![idx] = Capture(idx, raw)]
    /\ ncap' = [ncap EXCEPT ![idx] = @ + 1]
    /\ IF idx + 1 < NUM_MOTORS
         THEN idx' = idx + 1 /\ pc' = pc
         ELSE idx' = 0 /\ pc' = NextPhase("capture")
    /\ UNCHANGED <<pressed, enabled, motorDir, encDir, mspeed, cmd, setpoint,
                   error_sum, last_error, update, print_count, sequence,
                   ticks, accel, fed, usedSp, polls, worked, slept,
                   rawSet, horizon>>

\* encoders[i].capture() raises.
CaptureFault ==
    /\ pc = "capture"
    /\ Raise
    /\ UNCHANGED <<error_sum, last_error, accel, fed, usedSp>>

\* Variant: every wheel is fed the first encoder's capture.
CaptureForFirst(i) == captures[0]

\* The capture passed to the PID of wheel i.
CaptureFor(i) == captures[i]

\* The state of PID i after calculate(value).
PidUpdate(i, value) ==
    /\ accel' = [accel EXCEPT ![i] = calculate(i, value)]
    /\ error_sum' = [error_sum EXCEPT ![i] = PidIntegral(i, value)]
    /\ last_error' = [last_error EXCEPT ![i] = PidError(i, value)]
    /\ fed' = [fed EXCEPT ![i] = CaptureFor(i)]
    /\ usedSp' = [usedSp EXCEPT ![i] = setpoint[i]]

\* Variant: the sequence dispatch sits inside the wheel loop, so the
\* setpoints of the coming sequence index are written after each wheel.
CalcStepDispatchInside ==
    /\ pc = "calc"
    /\ PidUpdate(idx, CaptureFor(idx).rps)
    /\ cmd' = [cmd EXCEPT ![idx] = NewCommand(mspeed[idx], accel'[idx])]
    /\ mspeed' = [mspeed EXCEPT ![idx] = MotorStore(cmd'[idx])]
    /\ setpoint' = SetMotorSpeeds(IF update + 1 >= UPDATES_PER_MOVE
                                    THEN (sequence + 1) % NUM_MOVES
                                    ELSE sequence)
    /\ IF idx + 1 < NUM_MOTORS
         THEN idx' = idx + 1 /\ pc' = pc
         ELSE idx' = 0 /\ pc' = NextPhase("calc")
    /\ UNCHANGED <<pressed, enabled, motorDir, encDir, captures, ncap,
                   update, print_count, sequence, ticks, polls, worked, slept,
                   rawSet, horizon>>

\* "accel = vel_pids[i].calculate(captures[i].revolutions_per_second)
\*  motors[i].speed(motors[i].speed() + (accel * UPDATE_RATE))"
CalcStep ==
    /\ pc = "calc"
    /\ PidUpdate(idx, CaptureFor(idx).rps)
    /\ cmd' = [cmd EXCEPT ![idx] = NewCommand(mspeed[idx], accel'[idx])]
    /\ mspeed' = [mspeed EXCEPT ![idx] = MotorStore(cmd'[idx])]
    /\ IF idx + 1 < NUM_MOTORS
         THEN idx' = idx + 1 /\ pc' = pc
         ELSE idx' = 0 /\ pc' = NextPhase("calc")
    /\ UNCHANGED <<pressed, enabled, motorDir, encDir, setpoint, captures, ncap,
                   update, print_count, sequence, ticks, polls, worked, slept,
                   rawSet, horizon>>

\* motors[i].speed() or motors[i].speed(value) raises, after calculate returned.
MotorFault ==
    /\ pc = "calc"
    /\ PidUpdate(idx, CaptureFor(idx).rps)
    /\ Raise

\* Variant: the counter is not reset at the end of a movement.
UpdateAfterNoReset == update + 1

\* The progress counter and the sequence index after "update += 1" and the
\* end-of-movement test.
UpdateAfter == IF MoveDone(update + 1) THEN 0 ELSE update + 1
SequenceAfter == IF MoveDone(update + 1) THEN NextSequence(sequence) ELSE sequence

\* The print count, the progress counter, the sequence index and the
\* setpoints of the new sequence index.
Sequencer ==
    /\ pc = "seq"
    /\ print_count' = (print_count + 1) % PRINT_DIVIDER
    /\ update' = UpdateAfter
    /\ sequence' = SequenceAfter
    /\ setpoint' = SetMotorSpeeds(sequence')
    /\ pc' = NextPhase("seq")
    /\ UNCHANGED <<idx, pressed, enabled, motorDir, encDir, mspeed, cmd,
                   error_sum, last_error, captures, ncap, ticks, accel, fed, usedSp,
                   polls, worked, slept,
                   rawSet, horizon>>

\* The time time.sleep(UPDATE_RATE) blocks after work that took w.
SleepFor(w) == UPDATE_RATE_MS

\* "time.sleep(UPDATE_RATE)"
Sleep ==
    /\ pc = "sleep"
    /\ ticks' = ticks + 1
    /\ worked' = WorkTime
    /\ slept' = SleepFor(WorkTime)
    /\ pc' = NextPhase("sleep")
    /\ UNCHANGED <<idx, pressed, enabled, motorDir, encDir, mspeed, cmd,
                   setpoint, error_sum, last_error, captures, ncap, update,
                   print_count, sequence, accel, fed, usedSp, polls,
                   rawSet, horizon>>

\* Variant: the disable loop stops one motor short.
DisableStepShort ==
    /\ pc = "disable"
    /\ enabled' = [enabled EXCEPT ![idx] = FALSE]
    /\ IF idx + 1 < NUM_MOTORS - 1
         THEN idx' = idx + 1 /\ pc' = pc
         ELSE idx' = 0 /\ pc' = "done"
    /\ UNCHANGED <<pressed, motorDir, encDir, mspeed, cmd, setpoint,
                   error_sum, last_error, captures, ncap, update, print_count,
                   sequence, ticks, accel, fed, usedSp, polls, worked, slept,
                   rawSet, horizon>>

\* "for m in motors: m.disable()"
DisableStep ==
    /\ pc = "disable"
    /\ enabled' = [enabled EXCEPT ![idx] = FALSE]
    /\ IF idx + 1 < NUM_MOTORS
         THEN idx' = idx + 1 /\ pc' = pc
         ELSE idx' = 0 /\ pc' = "done"
    /\ UNCHANGED <<pressed, motorDir, encDir, mspeed, cmd, setpoint,
                   error_sum, last_error, captures, ncap, update, print_count,
                   sequence, ticks, accel, fed, usedSp, polls, worked, slept,
                   rawSet, horizon>>

Next ==
    \/ Press
    \/ Release
    \/ PollContinue
    \/ PollHalt
    \/ PollFault
    \/ CaptureStep
    \/ CaptureFault
    \/ CalcStep
    \/ MotorFault
    \/ Sequencer
    \/ Sleep
    \/ DisableStep

Spec == Init /\ [][Next]_vars

SpecSeq == InitSeq /\ [][Next]_vars

\* The statements of the program, each of which returns: the interpreter
\* runs the next statement once the device call or the sleep before it has
\* returned.
ProgramStep ==
    \/ PollContinue
    \/ PollHalt
    \/ CaptureStep
    \/ CalcStep
    \/ Sequencer
    \/ Sleep
    \/ DisableStep

\* The program under the assumption that every call returns or raises.
SpecLive == InitSeq /\ [][Next]_vars /\ WF_vars(ProgramStep)

(***************************************************************************)
(* Properties.  A tick boundary is a state with pc = "poll"; there ticks   *)
(* is the number of completed ticks.                                       *)
(***************************************************************************)
AllWheels(v) == [i \in Wheels |-> v]

\* The Sequencer action is being taken.
SequencerActs == pc = "seq" /\ pc' # pc

\* C1: from a fresh start the sequence index visits 0,1,2,3,4,5,6 in that
\* cyclic order and nothing else: at every tick boundary it is the number of
\* whole moves completed, modulo 7; it only ever changes to its cyclic
\* successor, so index 6 advances to index 0; and after 7 * UPDATES_PER_MOVE
\* completed ticks the index is 0 again with the progress counter at 0.
C1_SequenceCycle ==
    /\ [](sequence \in 0 .. (NUM_MOVES - 1))
    /\ [](pc = "poll" => sequence = (ticks \div UPDATES_PER_MOVE) % NUM_MOVES)
    /\ []((pc = "poll" /\ ticks = NUM_MOVES * UPDATES_PER_MOVE)
            => (sequence = 0 /\ update = 0))
    /\ [][sequence' # sequence => sequence' = (sequence + 1) % NUM_MOVES]_vars
    /\ [][(sequence = 6 /\ sequence' # sequence) => sequence' = 0]_vars

\* C1 witness: the tick boundary after one whole pass, back at index 0.
C1_Witness ==
    /\ pc = "poll"
    /\ ticks = NUM_MOVES * UPDATES_PER_MOVE
    /\ sequence = 0
    /\ update = 0

\* C2: every sequence state is held for exactly UPDATES_PER_MOVE ticks: the
\* sequencer step of tick n changes the index if and only if n is a positive
\* multiple of UPDATES_PER_MOVE; at the end of tick 199 the index is Forward
\* with all four setpoints +0.9, and the sequencer step of tick 200 moves the
\* index from 0 to 1 and all four setpoints from +0.9 to -0.9.
C2_DwellExactly200 ==
    /\ [][SequencerActs =>
            ((sequence' # sequence) <=> (CurTick % UPDATES_PER_MOVE = 0))]_vars
    /\ []((pc = "poll" /\ ticks = UPDATES_PER_MOVE - 1)
            => (sequence = 0 /\ setpoint = AllWheels(SPEED)))
    /\ [][(SequencerActs /\ CurTick = UPDATES_PER_MOVE)
            => /\ sequence = 0 /\ sequence' = 1
               /\ setpoint = AllWheels(SPEED)
               /\ setpoint' = AllWheels(-SPEED)]_vars
    /\ []((pc = "poll" /\ ticks = UPDATES_PER_MOVE)
            => (sequence = 1 /\ setpoint = AllWheels(-SPEED)))

\* C2 witness: tick 200 has just made the transition to Reverse.
C2_Witness ==
    /\ pc = "sleep"
    /\ CurTick = UPDATES_PER_MOVE
    /\ sequence = 1
    /\ update = 0
    /\ setpoint = AllWheels(-SPEED)

\* The setpoint table, a row <<FL, FR, RL, RR>> per sequence index.
TableRow(s) ==
    CASE s = 0 -> <<SPEED, SPEED, SPEED, SPEED>>
      [] s = 1 -> <<-SPEED, -SPEED, -SPEED, -SPEED>>
      [] s = 2 -> <<SPEED, -SPEED, SPEED, -SPEED>>
      [] s = 3 -> <<0, 0, 0, 0>>
      [] s = 4 -> <<SPEED, -SPEED, -SPEED, SPEED>>
      [] s = 5 -> <<-SPEED, SPEED, SPEED, -SPEED>>
      [] s = 6 -> <<0, 0, 0, 0>>

\* The setpoints in force, as a row <<FL, FR, RL, RR>>.
SetpointRow == <<setpoint[FL], setpoint[FR], setpoint[RL], setpoint[RR]>>

\* C3: at the end of every completed tick (from the sequencer step of a tick
\* on, and at every later point) the four setpoints equal the table row of
\* the current sequence index.
C3_SetpointTable ==
    (ticks >= 1 \/ pc = "sleep") =>
        (sequence \in 0 .. 6 /\ SetpointRow = TableRow(sequence))

\* C3 witness: the end of a tick in TurnRight, with the row of the table.
C3_Witness ==
    /\ pc = "sleep"
    /\ sequence = 2
    /\ SetpointRow = <<SPEED, -SPEED, SPEED, -SPEED>>

\* The halt signal has been read true at the loop head.
Halted == pc \in {"disable", "done"}

\* What the loop body writes: captures, PID state, motor speeds and commands,
\* setpoints and counters.
loopState == <<captures, ncap, accel, fed, usedSp, error_sum, last_error,
               mspeed, cmd, setpoint, update, print_count, sequence, ticks>>

\* C4: once the halt signal has been read true at the loop head, no capture,
\* PID calculation, speed command, setpoint write or counter update is
\* performed any more, no motor is enabled again, and when the program is
\* done every one of the four motors is disabled.
C4_HaltStopsEverything ==
    /\ [][Halted => /\ Halted'
                    /\ UNCHANGED loopState
                    /\ \A i \in Wheels : ~enabled[i] => ~enabled'[i]]_vars
    /\ [](pc = "done" => \A i \in Wheels : ~enabled[i])

\* C4 witness: the program is done after at least one tick, motors disabled,
\* with a speed command still held by a motor.
C4_Witness ==
    /\ pc = "done"
    /\ ticks >= 1
    /\ \A i \in Wheels : ~enabled[i]
    /\ \E i \in Wheels : mspeed[i] # 0

\* C5: the value the loop passes to motors[i].speed(...) is always within
\* the actuator's valid range [-1.0, 1.0].
C5_CommandInRange ==
    \A i \in Wheels : cmd[i] \in (-SPEED_LIMIT) .. SPEED_LIMIT

C7_CaptureOncePerTick ==
    /\ \A i \in Wheels : ncap[i] <= 1
    /\ pc \in {"calc", "seq", "sleep"} =>
         \A i \in Wheels : /\ ncap[i] = 1
                           /\ captures[i].enc = i
                           /\ captures[i].tick = CurTick
    /\ \A i \in Wheels :
         ((pc = "calc" /\ i < idx) \/ pc \in {"seq", "sleep"}) =>
             /\ fed[i] = captures[i]
             /\ fed[i].enc = i
             /\ fed[i].tick = CurTick

\* C7 witness: in the second tick all four PIDs have run on that tick's
\* captures, and two wheels were fed different velocities.
C7_Witness ==
    /\ pc = "seq"
    /\ ticks = 1
    /\ \A i \in Wheels : fed[i].tick = 2 /\ fed[i].enc = i /\ ncap[i] = 1
    /\ fed[RL].rps # fed[FL].rps

\* The velocity-loop update of wheel idx is being taken.
CalcActs == pc = "calc" /\ pc' # "crashed" /\ <<pc, idx>>' # <<pc, idx>>

\* C8: for every wheel and every tick, the new motor command equals the
\* speed read back from the motor plus the PID correction of that tick times
\* the tick period (1 / UPDATES); corrections are in tenths per second and
\* commands in hundredths.
C8_CommandAccumulates ==
    [][CalcActs =>
         /\ accel'[idx] = calculate(idx, captures[idx].rps)
         /\ UPDATES * (cmd'[idx] - mspeed[idx]) = 10 * accel'[idx]
         /\ \A j \in Wheels \ {idx} : cmd'[j] = cmd[j]]_vars

\* C8 witness: a wheel whose command is a non-zero correction added to a
\* non-zero speed held from the tick before.
C8_Witness ==
    /\ pc = "seq"
    /\ ticks >= 1
    /\ accel[RR] # 0
    /\ cmd[RR] # 0
    /\ UPDATES * cmd[RR] # 10 * accel[RR]

\* C9: a device call that raises ends the program only after all four
\* motors have been disabled.
C9_FaultDisablesMotors ==
    pc = "crashed" => \A i \in Wheels : ~enabled[i]

\* Positions of motors and encoders B and D in the lists motors and encoders.
MOTOR_B == 1
MOTOR_D == 3

\* C10: for every wheel the encoder is reversed if and only if the motor is
\* reversed, and the reversed motors and encoders are B and D.
C10_PolarityConsistent ==
    /\ \A w \in Wheels : (encDir[w] = REVERSED_DIR) <=> (motorDir[w] = REVERSED_DIR)
    /\ {w \in Wheels : motorDir[w] = REVERSED_DIR} = {MOTOR_B, MOTOR_D}
    /\ {w \in Wheels : encDir[w] = REVERSED_DIR} = {MOTOR_B, MOTOR_D}

\* Wheel i was at its setpoint in the tick before this one: its PID ran in
\* that tick, on a measurement equal to the setpoint it read, and the
\* setpoint is still that one.
AtSetpointLastTick(i) ==
    /\ fed[i].tick = ticks
    /\ fed[i].rps = usedSp[i]
    /\ usedSp[i] = setpoint[i]

\* C11: with the configured gains, when the setpoint of a wheel is held and
\* its measured velocity equals the setpoint on two consecutive ticks, the
\* PID correction of the second tick is zero and the command passed to the
\* motor is the speed read back: the command stops changing.  (The first of
\* the two ticks is the one that flushes the previous error.)
C11_ZeroCorrectionAtSetpoint ==
    [][(CalcActs /\ AtSetpointLastTick(idx) /\ captures[idx].rps = setpoint[idx])
         => /\ accel'[idx] = 0
            /\ cmd'[idx] = mspeed[idx]
            /\ mspeed'[idx] = mspeed[idx]]_vars

\* C11 witness: the third tick, wheel RR measured at its setpoint +0.9 as in
\* the tick before; the correction is zero and the motor keeps a non-zero
\* speed built up in the first tick.
C11_Witness ==
    /\ pc = "seq"
    /\ ticks = 2
    /\ fed[RR].rps = SPEED
    /\ usedSp[RR] = SPEED
    /\ last_error[RR] = 0
    /\ accel[RR] = 0
    /\ error_sum[RR] # 0
    /\ mspeed[RR] # 0
    /\ cmd[RR] = mspeed[RR]

\* Wheel i's PID has run in the first tick.
CalculatedInFirstTick(i) ==
    ticks = 0 /\ ((pc = "calc" /\ i < idx) \/ pc \in {"seq", "sleep"})

\* C12: on the first tick after start-up the PID calculation of each of the
\* four wheels uses the Forward setpoint +0.9.
C12_FirstTickUsesForward ==
    \A i \in Wheels : CalculatedInFirstTick(i) => usedSp[i] = SPEED

\* The program is inside a loop iteration.
InTick == pc \in {"capture", "calc", "seq", "sleep"}

\* The next statement of the loop body.
TickStep == CaptureStep \/ CalcStep \/ Sequencer \/ Sleep

\* All the work of the tick in progress has been done.
TickWorkDone ==
    /\ \A i \in Wheels : ncap[i] = 1 /\ captures[i].tick = CurTick
    /\ \A i \in Wheels : fed[i].tick = CurTick /\ fed[i] = captures[i]
    /\ update = CurTick % UPDATES_PER_MOVE
    /\ SetpointRow = TableRow(sequence)

\* C13: the halt signal is read exactly once per tick, at the loop head
\* before any work of the tick, and nowhere else; a tick that has begun is
\* left for the next loop head only from the sleep, with its four captures,
\* four PID updates, counter increment, sequencer step and setpoint write
\* done, never for the disable loop, and its next statement can run whatever
\* the button shows.
C13_PolledOncePerTick ==
    /\ [](pc = "poll" => polls = ticks)
    /\ [](InTick => polls = ticks + 1)
    /\ [][polls' # polls => (pc = "poll" /\ polls' = polls + 1)]_vars
    /\ [][InTick => pc' \in {"capture", "calc", "seq", "sleep", "poll", "crashed"}]_vars
    /\ [][(InTick /\ pc' = "poll") => pc = "sleep"]_vars
    /\ [](pc = "sleep" => TickWorkDone)
    /\ [](InTick => ENABLED TickStep)

\* C13 witness: the button is down while the wheel loop of the second tick
\* runs, after it read false at the head of that tick.
C13_Witness ==
    /\ pc = "calc"
    /\ idx = 2
    /\ pressed
    /\ ticks = 1
    /\ polls = 2

\* C14: if from some point on the halt signal stays true and no device call
\* raises, the loop is eventually left and all four motors are eventually
\* disabled; the loop is left only by reading the halt signal true at the
\* loop head; and as long as the halt signal is never read true and no
\* device call raises, the loop keeps running, through every move of the
\* sequence, for all the ticks the model explores.
C14_HaltEventuallyDisables ==
    /\ (<>[]pressed /\ [](pc # "crashed"))
         => <>(pc = "done" /\ \A i \in Wheels : ~enabled[i])
    /\ [][(Halted' /\ ~Halted) => (pc = "poll" /\ pressed)]_vars
    /\ [](pc \notin {"disable", "done", "crashed"})
         => /\ <>(pc = "poll" /\ ticks = horizon)
            /\ \A q \in 0 .. (NUM_MOVES - 1) : <>(sequence = q /\ pc = "sleep")

\* C14 witness: the program is done with the button still down and all four
\* motors disabled, after the sequence has moved on at least once.
C14_Witness ==
    /\ pc = "done"
    /\ pressed
    /\ sequence >= 1
    /\ \A i \in Wheels : ~enabled[i]

\* C15: at every tick boundary 0 <= update < UPDATES_PER_MOVE and
\* 0 <= sequence <= 6; the sequencer step of a tick either adds exactly 1 to
\* the counter and leaves the index alone, or, exactly when the counter
\* reaches UPDATES_PER_MOVE, resets the counter to 0 and advances the index
\* by one step modulo 7; no other step changes the counter or the index.
C15_CounterAndIndex ==
    /\ [](pc = "poll" => /\ update \in 0 .. (UPDATES_PER_MOVE - 1)
                         /\ sequence \in 0 .. 6)
    /\ [][SequencerActs =>
            \/ /\ update + 1 < UPDATES_PER_MOVE
               /\ update' = update + 1
               /\ sequence' = sequence
            \/ /\ update + 1 = UPDATES_PER_MOVE
               /\ update' = 0
               /\ sequence' = (sequence + 1) % NUM_MOVES]_vars
    /\ [][~SequencerActs => UNCHANGED <<update, sequence>>]_vars
    /\ [](pc = "poll" => update = ticks % UPDATES_PER_MOVE)

\* C15 witness: a tick boundary right after the reset that entered
\* StrafeLeft, the counter back at 0.
C15_Witness ==
    /\ pc = "poll"
    /\ update = 0
    /\ sequence = 5
    /\ ticks = 5 * UPDATES_PER_MOVE

\* The setpoints the PIDs have read, as a row <<FL, FR, RL, RR>>.
UsedRow == <<usedSp[FL], usedSp[FR], usedSp[RL], usedSp[RR]>>

\* C17: setpoints are written by the sequencer step only, never while the
\* encoders are captured or between the first and the last PID calculation
\* of a tick; so the setpoint each calculate call of a tick has used is the
\* one in force since the end of the previous tick, the four together are
\* one row of the table (from the second tick on, the row of the index in
\* force), and in the tick after a transition all four are the new state's
\* row.
C17_SetpointChangeAtomic ==
    /\ [][setpoint' # setpoint => SequencerActs]_vars
    /\ [][(pc = "capture" \/ pc = "calc") => setpoint' = setpoint]_vars
    /\ [](\A i \in Wheels : (pc = "calc" /\ i < idx) => usedSp[i] = setpoint[i])
    /\ [](pc = "seq" => usedSp = setpoint)
    /\ []((pc = "seq" /\ ticks >= 1) => UsedRow = TableRow(sequence))
    /\ []((pc = "seq" /\ ticks >= 1 /\ update = 0)
            => (UsedRow = TableRow(sequence)
                /\ UsedRow # TableRow((sequence + NUM_MOVES - 1) % NUM_MOVES)))

\* C17 witness: tick 201, the first of Reverse; all four PIDs have run on
\* -0.9.
C17_Witness ==
    /\ pc = "seq"
    /\ ticks = UPDATES_PER_MOVE
    /\ update = 0
    /\ sequence = 1
    /\ usedSp = AllWheels(-SPEED)

\* The program is in the loop: at its head or inside an iteration.
InLoop == pc = "poll" \/ InTick

\* C18: all four motors are enabled before the first tick and stay enabled
\* during every tick; the enabled state of a motor changes only in the
\* disable loop, which is entered only from the loop head with the halt
\* signal read true, and no speed command is issued once a motor has been
\* disabled.
C18_EnabledWhileLooping ==
    /\ [](InLoop => \A i \in Wheels : enabled[i])
    /\ [][enabled' # enabled => (pc = "disable" /\ Halted')]_vars
    /\ [][(pc' = "disable" /\ pc # "disable") => (pc = "poll" /\ pressed)]_vars
    /\ [][(\E i \in Wheels : ~enabled[i]) => UNCHANGED <<cmd, mspeed>>]_vars

\* C18 witness: the wheel loop of the third tick issues speed commands with
\* all four motors enabled.
C18_Witness ==
    /\ pc = "calc"
    /\ idx = 3
    /\ ticks = 2
    /\ \A i \in Wheels : enabled[i]
    /\ cmd[RL] # 0

\* C16: the end-of-tick sleep lasts the tick period minus the time the
\* tick's work took, so that, the work taking less than the period, the
\* starts of consecutive ticks are exactly one tick period apart.
C16_SleepsRemainderOfPeriod ==
    (ticks >= 1 /\ worked < UPDATE_RATE_MS) =>
        /\ slept = UPDATE_RATE_MS - worked
        /\ worked + slept = UPDATE_RATE_MS

=============================================================================
